---- MODULE Spec2Model ----
(***************************************************************************)
(* A model of cargo-mcp's subprocess execution core (src/tools/            *)
(* cargo_utils.rs, src/tools/cargo_run.rs, src/state.rs).                  *)
(*                                                                         *)
(* Strings of the program are sequences of one-character strings, so that  *)
(* joining, lower-casing, substring search and escaping are computed.      *)
(* Three specifications share the variables:                                 *)
(*   Spec     one invocation of execute_cargo_command, running beside the  *)
(*            child process it spawns;                                     *)
(*   SpecCmd  CargoRun::execute up to the spawn: toolchain resolution,     *)
(*            create_cargo_command, wrap_command_for_pty, spawn;           *)
(*   SpecPure create_cargo_command and wrap_command_for_pty applied to     *)
(*            inputs drawn from bounded sets.                              *)
(***************************************************************************)
EXTENDS Integers, Sequences, FiniteSets, TLC

VARIABLES
    pc,           \* position of the invocation in its code
    cmd,          \* the std::process::Command: [program, args, env]
    project_path, \* [name, has_config]: the project directory
    timeout_secs, \* Option<u64>: [some |-> FALSE] or [some |-> TRUE, v |-> n]
    now,          \* milliseconds on the monotonic clock since `start`
    lastLatency,  \* milliseconds the last poll took beyond the sleep
    polls,        \* try_wait calls made
    ops,          \* the other calls made on the child, in order
    killResult,   \* "none", "ok" or "err": what child.kill() returned
    child,        \* "none", "running", "zombie" (dead, unreaped), "reaped"
    childStatus,  \* the ExitStatus the child died with, or NoStatus
    script,       \* what the child program still has to write
    childExit,    \* how the child program ends by itself
    written,      \* [out, err]: bytes the child has written so far
    blockedAtStart, \* history: the child met a full pipe before the first poll
    pipe,         \* [out, err]: bytes in each pipe, not yet read
    captured,     \* [out, err]: stdout_bytes and stderr_bytes
    childEnv,     \* environment of the spawned process
    result,       \* the value execute_cargo_command returned
    req,          \* the CargoRun request (SpecCmd)
    session,      \* the session store: [default_toolchain, readable]
    fs,           \* the file system: [cwd, projects, configs]
    built,        \* the command create_cargo_command returned (SpecCmd)
    call,         \* a call of one of the two command builders (SpecPure)
    ret           \* what that call returned

vars == <<pc, cmd, project_path, timeout_secs, now, lastLatency, polls, ops,
          killResult, child, childStatus, script, childExit, written,
          blockedAtStart, pipe, captured, childEnv, result, req, session, fs,
          built, call, ret>>

(***************************************************************************)
(* Bounds of the model.                                                    *)
(***************************************************************************)
\* Largest timeout, in seconds, an invocation is given.
MaxTimeoutSecs == 1
\* Capacity of an OS pipe, in bytes.
PipeCap == 2
\* Milliseconds a poll (try_wait, the clock read, waking from sleep) may take
\* beyond the sleep itself: thread::sleep guarantees only a minimum.
LatencyMs == 30

(***************************************************************************)
(* Constants of the program.                                               *)
(***************************************************************************)
PollMs == 100
MsPerSec == 1000
ExitCodeUnknown == -1

(***************************************************************************)
(* Strings.                                                                *)
(***************************************************************************)
UpperCase == <<"A","B","C","D","E","F","G","H","I","J","K","L","M",
               "N","O","P","Q","R","S","T","U","V","W","X","Y","Z">>
LowerCase == <<"a","b","c","d","e","f","g","h","i","j","k","l","m",
               "n","o","p","q","r","s","t","u","v","w","x","y","z">>

\* char::to_lowercase on one character.
LowerChar(c) ==
    IF \E i \in 1..Len(UpperCase) : UpperCase[i] = c
    THEN LowerCase[CHOOSE i \in 1..Len(UpperCase) : UpperCase[i] = c]
    ELSE c

\* str::to_lowercase
ToLower(s) == [i \in 1..Len(s) |-> LowerChar(s[i])]

\* str::contains(&str)
Contains(hay, needle) ==
    \E i \in 1..(Len(hay) - Len(needle) + 1) :
        SubSeq(hay, i, i + Len(needle) - 1) = needle

\* str::ends_with(char)
EndsWith(s, c) == Len(s) > 0 /\ s[Len(s)] = c

\* Concatenation of a sequence of strings.
RECURSIVE Concat(_)
Concat(ss) == IF ss = <<>> THEN <<>> ELSE Head(ss) \o Concat(Tail(ss))

\* <[String]>::join(sep)
RECURSIVE Join(_, _)
Join(ss, sep) ==
    IF ss = <<>> THEN <<>>
    ELSE IF Len(ss) = 1 THEN ss[1]
    ELSE ss[1] \o sep \o Join(Tail(ss), sep)

SP == <<" ">>
NL == "\n"

(***************************************************************************)
(* format_command and shell_escape: the command line as displayed.         *)
(***************************************************************************)
\* What Rust's Debug formatting of a str writes for one character.
EscapeDebugChar(c) ==
    IF c = "\"" THEN <<"\\", "\"">>
    ELSE IF c = "\\" THEN <<"\\", "\\">>
    ELSE IF c = NL THEN <<"\\", "n">>
    ELSE <<c>>

shell_escape(arg) ==
    IF \E i \in 1..Len(arg) : arg[i] \in {" ", "\"", "'", "\\"}
    THEN <<"\"">> \o Concat([i \in 1..Len(arg) |-> EscapeDebugChar(arg[i])]) \o <<"\"">>
    ELSE arg

format_command(c) ==
    LET args == Join([i \in 1..Len(c.args) |-> shell_escape(c.args[i])], SP)
    IN  IF args = <<>> THEN c.program ELSE c.program \o SP \o args

(***************************************************************************)
(* Option values and the words of the program.                             *)
(***************************************************************************)
None == [some |-> FALSE]
Some(x) == [some |-> TRUE, v |-> x]

s_cargo == <<"c","a","r","g","o">>
s_rustup == <<"r","u","s","t","u","p">>
s_run == <<"r","u","n">>
s_script == <<"s","c","r","i","p","t">>
s_q == <<"-","q">>
s_c == <<"-","c">>
s_devnull == <<"/","d","e","v","/","n","u","l","l">>
s_espflash == <<"e","s","p","f","l","a","s","h">>
s_flash == <<"f","l","a","s","h">>
s_monitor == <<"m","o","n","i","t","o","r">>

\* A Command without environment overrides.
NoEnv == [k \in {} |-> <<>>]

(***************************************************************************)
(* create_cargo_command                                                    *)
(***************************************************************************)
\* The builder as it would be if an empty toolchain counted as absent.
create_cargo_command_SkipsEmpty(cargo_args, toolchain, env_vars) ==
    LET c == IF toolchain.some /\ toolchain.v # <<>>
             THEN [program |-> s_rustup,
                   args |-> <<s_run, toolchain.v, s_cargo>> \o cargo_args]
             ELSE [program |-> s_cargo, args |-> cargo_args]
    IN  [program |-> c.program,
         args |-> c.args,
         env |-> IF env_vars.some THEN env_vars.v ELSE NoEnv]

create_cargo_command(cargo_args, toolchain, env_vars) ==
    LET c == IF toolchain.some
             THEN [program |-> s_rustup,
                   args |-> <<s_run, toolchain.v, s_cargo>> \o cargo_args]
             ELSE [program |-> s_cargo, args |-> cargo_args]
    IN  [program |-> c.program,
         args |-> c.args,
         env |-> IF env_vars.some THEN env_vars.v ELSE NoEnv]

(***************************************************************************)
(* wrap_command_for_pty                                                    *)
(***************************************************************************)
\* The reconstructed line: format!("{} {}", program, args.join(" ")).
combined_line(c) == c.program \o SP \o Join(c.args, SP)

\* The heuristic as it would be without the lower-casing.
needs_pty_CaseSensitive(c) ==
    LET combined == combined_line(c)
    IN  \/ Contains(combined, s_espflash)
        \/ Contains(combined, s_flash)
        \/ Contains(combined, s_monitor)
        \/ (Contains(combined, s_cargo) /\ Contains(combined, s_run))

needs_pty(c) ==
    LET combined_lower == ToLower(combined_line(c))
    IN  \/ Contains(combined_lower, s_espflash)
        \/ Contains(combined_lower, s_flash)
        \/ Contains(combined_lower, s_monitor)
        \/ (Contains(combined_lower, s_cargo) /\ Contains(combined_lower, s_run))

\* Command::new("script") with its four arguments: a new Command, which
\* carries no environment override.
script_command(c) ==
    [program |-> s_script,
     args |-> <<s_q, s_c, combined_line(c), s_devnull>>,
     env |-> NoEnv]

wrap_command_for_pty(c, path) ==
    IF needs_pty(c) /\ path.has_config THEN script_command(c) ELSE c

(***************************************************************************)
(* The rendered report of execute_cargo_command.                           *)
(***************************************************************************)
\* A byte that is no valid UTF-8, and what String::from_utf8_lossy puts for it.
BadByte == "0xFF"
Replacement == "U+FFFD"

from_utf8_lossy(bytes) ==
    [i \in 1..Len(bytes) |-> IF bytes[i] = BadByte THEN Replacement ELSE bytes[i]]

NoStatus == [kind |-> "none", code |-> 0]
Exited(n) == [kind |-> "exit", code |-> n]
Signaled(n) == [kind |-> "signal", code |-> n]

\* success() as it would be if any exit code counted as success.
success_AnyExit(status) == status.kind = "exit"

\* ExitStatus::success and ExitStatus::code().unwrap_or(-1)
success(status) == status.kind = "exit" /\ status.code = 0
code_or_unknown(status) ==
    IF status.kind = "exit" THEN status.code ELSE ExitCodeUnknown

Segment(kind, text, code) == [kind |-> kind, text |-> text, code |-> code]

status_line(status) ==
    IF success(status)
    THEN Segment("completed successfully", <<>>, 0)
    ELSE Segment("failed with exit code", <<>>, code_or_unknown(status))

\* A stream's block: its label, the text, a newline when the text does not
\* end with one, and an empty line.
stream_block(label, str) ==
    IF str # <<>>
    THEN <<Segment(label, str \o (IF ~EndsWith(str, NL) THEN <<NL>> ELSE <<>>) \o <<NL>>, 0)>>
    ELSE <<>>

\* The notice as it would be if one empty stream were enough.
no_output_notice_Either(stdout_str, stderr_str) ==
    IF stdout_str = <<>> \/ stderr_str = <<>>
    THEN <<Segment("No output produced", <<>>, 0)>>
    ELSE <<>>

no_output_notice(stdout_str, stderr_str) ==
    IF stdout_str = <<>> /\ stderr_str = <<>>
    THEN <<Segment("No output produced", <<>>, 0)>>
    ELSE <<>>

render(command_name, path, c, status, stdout_bytes, stderr_bytes) ==
    LET stdout_str == from_utf8_lossy(stdout_bytes)
        stderr_str == from_utf8_lossy(stderr_bytes)
    IN  << Segment("header", command_name, 0),
           Segment("Working directory", path.name, 0),
           Segment("Command", format_command(c), 0),
           status_line(status) >>
        \o stream_block("STDOUT", stdout_str)
        \o stream_block("STDERR", stderr_str)
        \o no_output_notice(stdout_str, stderr_str)

NoResult == [tag |-> "none"]
Ok(report) == [tag |-> "Ok", report |-> report]
Err(e) == [tag |-> "Err", error |-> e]
\* bail!("Command timed out after {} seconds", timeout_secs.unwrap())
TimeoutError(secs) == [tag |-> "Err", error |-> "Command timed out after", secs |-> secs]

(***************************************************************************)
(* The child process and the operating system.                             *)
(***************************************************************************)
Wr(fd, b) == [fd |-> fd, byte |-> b]

\* The programs a child runs: the writes it makes, in order.
ChildScripts ==
    { <<>>,
      <<Wr("out", "a")>>,
      <<Wr("err", "e"), Wr("out", "a"), Wr("out", NL)>>,
      <<Wr("out", BadByte), Wr("err", "e")>>,
      [i \in 1..(PipeCap + 1) |-> Wr("out", "a")] }

\* How a child ends by itself: an exit code, a fatal signal, or never.
ChildExits == {Exited(0), Exited(3), Signaled(11), [kind |-> "hang", code |-> 0]}

NoBytes == [out |-> <<>>, err |-> <<>>]

\* The environment of this process, inherited by a child.
ParentEnv == [k \in {"PATH", "K1"} |-> IF k = "PATH" THEN "/bin" ELSE "parent"]

\* The environment a spawned Command's process gets: the parent's, with the
\* Command's overrides on top.
spawn_env(c) ==
    [k \in (DOMAIN ParentEnv) \cup (DOMAIN c.env) |->
        IF k \in DOMAIN c.env THEN c.env[k] ELSE ParentEnv[k]]

\* The child writes the next byte of its program; it blocks on a full pipe.
\* (blockedAtStart records, for the properties, that this happened before
\* the first poll.)
ChildWrite ==
    /\ child = "running"
    /\ script # <<>>
    /\ Len(pipe[Head(script).fd]) < PipeCap
    /\ pipe' = [pipe EXCEPT ![Head(script).fd] = Append(@, Head(script).byte)]
    /\ written' = [written EXCEPT ![Head(script).fd] = Append(@, Head(script).byte)]
    /\ script' = Tail(script)
    /\ blockedAtStart' =
          \/ blockedAtStart
          \/ (polls = 0 /\ script' # <<>> /\ Len(pipe'[Head(script').fd]) = PipeCap)
    /\ UNCHANGED <<pc, cmd, project_path, timeout_secs, now, lastLatency, polls,
                   ops, killResult, child, childStatus, childExit, captured,
                   childEnv, result, req, session, fs, built, call, ret>>

\* The child ends by itself after its last write.
ChildExit ==
    /\ child = "running"
    /\ script = <<>>
    /\ childExit.kind # "hang"
    /\ child' = "zombie"
    /\ childStatus' = childExit
    /\ UNCHANGED <<pc, cmd, project_path, timeout_secs, now, lastLatency, polls,
                   ops, killResult, script, childExit, written, blockedAtStart,
                   pipe, captured, childEnv, result, req, session, fs, built,
                   call, ret>>

(***************************************************************************)
(* execute_cargo_command                                                   *)
(***************************************************************************)
inputVars == <<cmd, project_path, timeout_secs, req, session, fs, built, call, ret>>
programVars == <<script, childExit, written, blockedAtStart>>

\* The deadline check as it would be with >= in place of >.
deadline_passed_AtOrAfter(elapsed_ms, secs) == elapsed_ms >= secs * MsPerSec

\* start.elapsed() > timeout, with timeout = Duration::from_secs(timeout_secs)
deadline_passed(elapsed_ms, secs) == elapsed_ms > secs * MsPerSec

\* cmd.spawn() succeeds: the child runs with both streams piped.
SpawnOk ==
    /\ pc = "spawn"
    /\ child' = "running"
    /\ childEnv' = spawn_env(cmd)
    /\ ops' = Append(ops, "spawn")
    /\ pc' = IF timeout_secs.some THEN "poll" ELSE "wait"
    /\ UNCHANGED <<inputVars, programVars, now, lastLatency, polls, killResult,
                   childStatus, pipe, captured, result>>

\* The failed spawn as it would be if it were tried a second time.
SpawnFail_Retries ==
    /\ pc = "spawn"
    /\ ops' = Append(ops, "spawn")
    /\ result' = IF ops = <<>> THEN result ELSE Err("spawn")
    /\ pc' = IF ops = <<>> THEN "spawn" ELSE "done"
    /\ UNCHANGED <<inputVars, programVars, now, lastLatency, polls, killResult,
                   child, childStatus, pipe, captured, childEnv>>

\* cmd.spawn()? fails: the error is returned.
SpawnFail ==
    /\ pc = "spawn"
    /\ ops' = Append(ops, "spawn")
    /\ result' = Err("spawn")
    /\ pc' = "done"
    /\ UNCHANGED <<inputVars, programVars, now, lastLatency, polls, killResult,
                   child, childStatus, pipe, captured, childEnv>>

\* The poll as it would be if the deadline were checked before the exit.
PollExited_DeadlineFirst ==
    /\ pc = "poll"
    /\ child = "zombie"
    /\ polls' = polls + 1
    /\ IF deadline_passed(now, timeout_secs.v)
       THEN pc' = "kill" /\ UNCHANGED child
       ELSE pc' = "read_out" /\ child' = "reaped"
    /\ UNCHANGED <<inputVars, programVars, now, lastLatency, ops, killResult,
                   childStatus, pipe, captured, childEnv, result>>

\* try_wait() returns Ok(Some(status)): the child has exited and is reaped.
PollExited ==
    /\ pc = "poll"
    /\ child = "zombie"
    /\ polls' = polls + 1
    /\ child' = "reaped"
    /\ pc' = "read_out"
    /\ UNCHANGED <<inputVars, programVars, now, lastLatency, ops, killResult,
                   childStatus, pipe, captured, childEnv, result>>

\* try_wait() returns Ok(None); the clock is read and compared to the timeout.
PollRunning ==
    /\ pc = "poll"
    /\ child = "running"
    /\ polls' = polls + 1
    /\ \E d \in {0, LatencyMs} :
        /\ now' = now + d
        /\ lastLatency' = d
    /\ pc' = IF deadline_passed(now', timeout_secs.v) THEN "kill" ELSE "sleep"
    /\ UNCHANGED <<inputVars, programVars, ops, killResult, child, childStatus,
                   pipe, captured, childEnv, result>>

\* try_wait() returns Err(e): break Err(e), and `?` returns it.
PollError ==
    /\ pc = "poll"
    /\ child \in {"running", "zombie"}
    /\ polls' = polls + 1
    /\ result' = Err("wait")
    /\ pc' = "done"
    /\ UNCHANGED <<inputVars, programVars, now, lastLatency, ops, killResult,
                   child, childStatus, pipe, captured, childEnv>>

\* thread::sleep(Duration::from_millis(100))
Sleep ==
    /\ pc = "sleep"
    /\ now' = now + PollMs
    /\ pc' = "poll"
    /\ UNCHANGED <<inputVars, programVars, lastLatency, polls, ops, killResult,
                   child, childStatus, pipe, captured, childEnv, result>>

\* let _ = child.kill(): SIGKILL ends a running child; the result is dropped.
KillOk ==
    /\ pc = "kill"
    /\ ops' = Append(ops, "kill")
    /\ killResult' = "ok"
    /\ IF child = "running"
       THEN child' = "zombie" /\ childStatus' = Signaled(9)
       ELSE UNCHANGED <<child, childStatus>>
    /\ pc' = "reap"
    /\ UNCHANGED <<inputVars, programVars, now, lastLatency, polls, pipe,
                   captured, childEnv, result>>

\* The kill as it would be if a failed kill skipped the wait.
KillErr_SkipsWait ==
    /\ pc = "kill"
    /\ ops' = Append(ops, "kill")
    /\ killResult' = "err"
    /\ pc' = "bail"
    /\ UNCHANGED <<inputVars, programVars, now, lastLatency, polls, child,
                   childStatus, pipe, captured, childEnv, result>>

\* let _ = child.kill() when the OS refuses the signal.
KillErr ==
    /\ pc = "kill"
    /\ ops' = Append(ops, "kill")
    /\ killResult' = "err"
    /\ pc' = "reap"
    /\ UNCHANGED <<inputVars, programVars, now, lastLatency, polls, child,
                   childStatus, pipe, captured, childEnv, result>>

\* let _ = child.wait() after the kill: returns once the child is dead.
Reap ==
    /\ pc = "reap"
    /\ child = "zombie"
    /\ child' = "reaped"
    /\ ops' = Append(ops, "wait")
    /\ pc' = "bail"
    /\ UNCHANGED <<inputVars, programVars, now, lastLatency, polls, killResult,
                   childStatus, pipe, captured, childEnv, result>>

\* bail!("Command timed out after {} seconds", timeout_secs.unwrap())
Bail ==
    /\ pc = "bail"
    /\ result' = TimeoutError(timeout_secs.v)
    /\ pc' = "done"
    /\ UNCHANGED <<inputVars, programVars, now, lastLatency, polls, ops,
                   killResult, child, childStatus, pipe, captured, childEnv>>

\* None => child.wait(): returns once the child has exited by itself.
Wait ==
    /\ pc = "wait"
    /\ child = "zombie"
    /\ child' = "reaped"
    /\ ops' = Append(ops, "wait")
    /\ pc' = "read_out"
    /\ UNCHANGED <<inputVars, programVars, now, lastLatency, polls, killResult,
                   childStatus, pipe, captured, childEnv, result>>

\* read_to_end on one pipe: every byte in it, up to end-of-stream, which
\* comes when the child, the writer, is gone.
read_to_end(fd, next) ==
    /\ child # "running"
    /\ captured' = [captured EXCEPT ![fd] = pipe[fd]]
    /\ pipe' = [pipe EXCEPT ![fd] = <<>>]
    /\ ops' = Append(ops, IF fd = "out" THEN "read_out" ELSE "read_err")
    /\ pc' = next
    /\ UNCHANGED <<inputVars, programVars, now, lastLatency, polls, killResult,
                   child, childStatus, childEnv, result>>

\* read_to_end(..)? fails: the error is returned.
read_fails(fd) ==
    /\ ops' = Append(ops, IF fd = "out" THEN "read_out" ELSE "read_err")
    /\ result' = Err("read")
    /\ pc' = "done"
    /\ UNCHANGED <<inputVars, programVars, now, lastLatency, polls, killResult,
                   child, childStatus, pipe, captured, childEnv>>

ReadStdout == pc = "read_out" /\ read_to_end("out", "read_err")
ReadStdoutFail == pc = "read_out" /\ read_fails("out")
ReadStderr == pc = "read_err" /\ read_to_end("err", "render")
ReadStderrFail == pc = "read_err" /\ read_fails("err")

\* The label CargoRun::execute passes as command_name.
command_name == <<"c","a","r","g","o"," ","r","u","n">>

\* The return as it would be if a failing child were returned as an error.
Render_FailsOnNonZero ==
    /\ pc = "render"
    /\ result' = IF success(childStatus)
                 THEN Ok(render(command_name, project_path, cmd, childStatus,
                                captured.out, captured.err))
                 ELSE Err("exit code")
    /\ pc' = "done"
    /\ UNCHANGED <<inputVars, programVars, now, lastLatency, polls, ops,
                   killResult, child, childStatus, pipe, captured, childEnv>>

\* The report is built and returned.
Render ==
    /\ pc = "render"
    /\ result' = Ok(render(command_name, project_path, cmd, childStatus,
                           captured.out, captured.err))
    /\ pc' = "done"
    /\ UNCHANGED <<inputVars, programVars, now, lastLatency, polls, ops,
                   killResult, child, childStatus, pipe, captured, childEnv>>

(***************************************************************************)
(* Spec: one invocation of execute_cargo_command beside its child.         *)
(***************************************************************************)
ProjectPaths == {[name |-> <<"/", "p">>, has_config |-> h] : h \in BOOLEAN}

Timeouts == {None} \cup {Some(t) : t \in 0..MaxTimeoutSecs}

NoRequest == [toolchain |-> None]
NoSession == [default_toolchain |-> None, readable |-> TRUE]
NoFs == [cwd |-> <<".">>, projects |-> {}, configs |-> {}]
NoCall == [fn |-> "none"]

Init ==
    /\ pc = "spawn"
    /\ project_path \in ProjectPaths
    /\ cmd = wrap_command_for_pty(
                create_cargo_command(<<s_run>>, None, Some([k \in {"K1"} |-> "v"])),
                project_path)
    /\ built = cmd
    /\ timeout_secs \in Timeouts
    /\ now = 0
    /\ lastLatency = 0
    /\ polls = 0
    /\ ops = <<>>
    /\ killResult = "none"
    /\ child = "none"
    /\ childStatus = NoStatus
    /\ script \in ChildScripts
    /\ childExit \in ChildExits
    /\ written = NoBytes
    /\ blockedAtStart = FALSE
    /\ pipe = NoBytes
    /\ captured = NoBytes
    /\ childEnv = NoEnv
    /\ result = NoResult
    /\ req = NoRequest
    /\ session = NoSession
    /\ fs = NoFs
    /\ call = NoCall
    /\ ret = NoResult

Next ==
    \/ SpawnOk
    \/ SpawnFail
    \/ PollExited
    \/ PollRunning
    \/ PollError
    \/ Sleep
    \/ KillOk
    \/ KillErr
    \/ Reap
    \/ Bail
    \/ Wait
    \/ ReadStdout
    \/ ReadStdoutFail
    \/ ReadStderr
    \/ ReadStderrFail
    \/ Render
    \/ ChildWrite
    \/ ChildExit

Spec == Init /\ [][Next]_vars

(***************************************************************************)
(* Properties of execute_cargo_command, checked under Spec.                *)
(***************************************************************************)
Called(op) == \E i \in 1..Len(ops) : ops[i] = op
Returned == pc = "done"
Spawned == child # "none"
TimedOutError == result.tag = "Err" /\ result.error = "Command timed out after"
TimeoutMs == timeout_secs.v * MsPerSec
\* The executor got the exit status of a child that was not killed.
ObservedExit == child = "reaped" /\ ~Called("kill")

\* C1: once a poll has found the child running past the timeout, the
\* invocation returns only after kill and then a blocking wait that reaped
\* the child, whatever kill returned, and what it returns is the failure
\* naming the configured timeout in seconds.
C1_KillThenReapThenFail ==
    /\ pc \in {"reap", "bail"} => ops = <<"spawn", "kill">> \/ ops = <<"spawn", "kill", "wait">>
    /\ pc = "bail" => ops = <<"spawn", "kill", "wait">> /\ child = "reaped"
    /\ (Returned /\ (Called("kill") \/ TimedOutError)) =>
          /\ ops = <<"spawn", "kill", "wait">>
          /\ killResult \in {"ok", "err"}
          /\ child = "reaped"
          /\ now > TimeoutMs
          /\ result = TimeoutError(timeout_secs.v)

\* C1 witness: the timeout failure was returned after a kill that failed,
\* and the child was reaped all the same.
C1_Witness ==
    /\ Returned
    /\ TimedOutError
    /\ killResult = "err"
    /\ child = "reaped"
    /\ timeout_secs.v = 1

\* C2: no invocation returns after a successful spawn while its child is
\* unreaped or still running.
C2_ReapedOnEveryReturn == (Returned /\ Spawned) => child = "reaped"

Received == IF result.tag = "Ok" THEN captured ELSE NoBytes

\* C4: when the invocation completes after the child terminated, naturally
\* or killed on timeout, every byte the child wrote has been read from the
\* pipes and is part of what the caller receives.
C4_AllOutputReceived ==
    (Returned /\ child = "reaped" /\ result # Err("read")) =>
        /\ Received = written
        /\ pipe = NoBytes

\* C8: a child that exits by itself gives an Ok report whose status line is
\* the success line for code 0 and the failure line with the code otherwise.
C8_ExitCodeIsNoError ==
    (Returned /\ ObservedExit /\ childStatus.kind = "exit"
       /\ ~(result.tag = "Err" /\ result.error = "read")) =>
        /\ result.tag = "Ok"
        /\ childStatus = childExit
        /\ result.report[4] =
              IF childExit.code = 0
              THEN Segment("completed successfully", <<>>, 0)
              ELSE Segment("failed with exit code", <<>>, childExit.code)

\* C8 witness: a child that exited with code 3 was reported as failed.
C8_Witness ==
    /\ Returned
    /\ result.tag = "Ok"
    /\ childExit = Exited(3)
    /\ result.report[4].kind = "failed with exit code"
    /\ result.report[4].code = 3

\* Place of each kind of segment in the fixed order of the report.
Rank(kind) ==
    CASE kind = "header" -> 1
      [] kind = "Working directory" -> 2
      [] kind = "Command" -> 3
      [] kind \in {"completed successfully", "failed with exit code"} -> 4
      [] kind = "STDOUT" -> 5
      [] kind = "STDERR" -> 6
      [] kind = "No output produced" -> 7
      [] OTHER -> 0

Has(report, kind) == \E i \in 1..Len(report) : report[i].kind = kind
TextOf(report, kind) == report[CHOOSE i \in 1..Len(report) : report[i].kind = kind].text

\* C9: the report is header, working directory, command line, status line,
\* then the STDOUT block, the STDERR block and the no-output notice, in that
\* order; the STDOUT block is there exactly when stdout was non-empty, the
\* STDERR block exactly when stderr was non-empty, the notice exactly when
\* both were empty; a block holds the text the child wrote.
C9_ReportOrder ==
    result.tag = "Ok" =>
        LET r == result.report
        IN  /\ Len(r) >= 4
            /\ \A i \in 1..4 : Rank(r[i].kind) = i
            /\ \A i, j \in 1..Len(r) : i < j => Rank(r[i].kind) < Rank(r[j].kind)
            /\ Has(r, "STDOUT") <=> written.out # <<>>
            /\ Has(r, "STDERR") <=> written.err # <<>>
            /\ Has(r, "No output produced") <=> (written.out = <<>> /\ written.err = <<>>)
            /\ Has(r, "STDOUT") =>
                  SubSeq(TextOf(r, "STDOUT"), 1, Len(written.out)) = from_utf8_lossy(written.out)
            /\ Has(r, "STDERR") =>
                  SubSeq(TextOf(r, "STDERR"), 1, Len(written.err)) = from_utf8_lossy(written.err)

\* C9 witness: a report with both blocks and no notice.
C9_Witness ==
    /\ result.tag = "Ok"
    /\ Len(result.report) = 6
    /\ result.report[5].kind = "STDOUT"
    /\ result.report[6].kind = "STDERR"

\* C10 as stated: a child that never exits is killed later than T and no
\* later than one poll interval after T.
C10_KillWithinOneInterval ==
    (timeout_secs.some /\ childExit.kind = "hang" /\ Called("kill")) =>
        /\ now > TimeoutMs
        /\ now <= TimeoutMs + PollMs

\* C10 amended: a child that never exits is killed at the first poll whose
\* elapsed time exceeds T, never at or before T, and no later than T plus
\* one poll interval plus the time that last poll took beyond its sleep.
C10_KillAtFirstPollPastTimeout ==
    (timeout_secs.some /\ childExit.kind = "hang" /\ Spawned) =>
        /\ pc = "sleep" => now <= TimeoutMs
        /\ pc = "poll" => now <= TimeoutMs + PollMs
        /\ (pc \in {"kill", "reap", "bail"} \/ Called("kill")) =>
              /\ now > TimeoutMs
              /\ now <= TimeoutMs + PollMs + lastLatency
        /\ (Returned /\ polls > 0) => (Called("kill") \/ result = Err("wait"))

\* C10 witness: the kill came more than one poll interval after T.
C10_Witness ==
    /\ timeout_secs.some
    /\ childExit.kind = "hang"
    /\ Called("kill")
    /\ child = "reaped"
    /\ now > TimeoutMs + PollMs

\* The child's next write finds its pipe full: it can go on only when the
\* pipe is read.
PipeFullForChild == script # <<>> /\ Len(pipe[Head(script).fd]) = PipeCap
Count(op) == Cardinality({i \in 1..Len(ops) : ops[i] = op})

\* C11: with the timeout absent the executor never kills the child, and it
\* never waits for the exit of a child that is blocked writing to a pipe
\* nobody reads, so that a child which writes a finite output and then exits
\* gets a report with its real exit status and all of its output.
C11_NeverWaitsOnBlockedChild ==
    (~timeout_secs.some /\ childExit.kind # "hang") =>
        /\ ~Called("kill")
        /\ ~(pc = "wait" /\ child = "running" /\ PipeFullForChild)
        /\ (Returned /\ result.tag = "Ok") =>
              (childStatus = childExit /\ captured = written)

\* C12: with a timeout present an invocation that has not returned can
\* always take a further step, whatever the child does (exits, never exits,
\* blocks on a full pipe): it never stops short of its return.
C12_ReturnsOrCanStep ==
    timeout_secs.some => (Returned \/ ENABLED Next)

\* C15: when the spawn is refused the invocation returns the spawn error at
\* once: one spawn attempt is all it makes in any invocation, and after a
\* refused one there is no report, no poll, no kill, no wait, no pipe read
\* and no time spent.
C15_SpawnFailureIsImmediate ==
    /\ Count("spawn") <= 1
    /\ (pc # "spawn" /\ ~Spawned) =>
          /\ Returned
          /\ result = Err("spawn")
          /\ ops = <<"spawn">>
          /\ polls = 0
          /\ now = 0
          /\ killResult = "none"
          /\ captured = NoBytes
          /\ ~ENABLED Next

\* C15 witness: a refused spawn under a timeout, returned as the error.
C15_Witness ==
    /\ Returned
    /\ ~Spawned
    /\ timeout_secs.some
    /\ result = Err("spawn")
    /\ ops = <<"spawn">>

\* C16: a poll that finds the child exited leads to the completed path (or
\* to the poll's own error), whatever time has elapsed; the kill is decided
\* only by a poll that found the child running past the deadline, is issued
\* at most once, and a rendered report carries the child's real exit status.
C16_ExitCheckBeforeDeadline ==
    [][ /\ (pc = "poll" /\ child = "zombie" /\ pc' # "poll") =>
              \/ (pc' = "read_out" /\ child' = "reaped" /\ ops' = ops)
              \/ (pc' = "done" /\ result' = Err("wait"))
        /\ (pc # "kill" /\ pc' = "kill") =>
              /\ pc = "poll"
              /\ child = "running"
              /\ child' = "running"
              /\ now' > TimeoutMs
              /\ ~Called("kill")
        /\ Count("kill")' <= 1
        /\ Count("kill")' = 1 => pc' \in {"reap", "bail", "done"}
        /\ result'.tag = "Ok" =>
              /\ ~Called("kill")'
              /\ childStatus' = childExit
              /\ result'.report[4] = status_line(childExit)
      ]_vars

\* C16 witness: a child that exited by itself with code 3 during the sleep
\* that crossed the deadline got its report, not the timeout.
C16_Witness ==
    /\ Returned
    /\ timeout_secs = Some(1)
    /\ now > TimeoutMs
    /\ polls > 1
    /\ result.tag = "Ok"
    /\ result.report[4] = Segment("failed with exit code", <<>>, 3)

\* C18: with a timeout present, a child that only writes a finite output
\* and then exits, and that is held up from before the first poll on by
\* nothing but its output not being read, is never returned as timed out.
C18_FiniteWriterNeverTimedOut ==
    (Returned /\ timeout_secs.some /\ timeout_secs.v > 0
       /\ childExit.kind # "hang" /\ blockedAtStart /\ PipeFullForChild) =>
        ~TimedOutError

(***************************************************************************)
(* SpecPure: the two command builders on inputs drawn from bounded sets.   *)
(***************************************************************************)
\* Longest argument list given to a builder.
MaxArgs == 2

s_nightly == <<"n","i","g","h","t","l","y">>
s_mk == <<"m","k">>
ArgWords == {s_run, <<"b","u","i","l","d">>, <<"F","l","a","s","h">>, <<"p","r","u","n","e">>, <<"a"," ","b">>, <<"M","o","n","i","t","o","r">>}
ArgLists == UNION {[1..n -> ArgWords] : n \in 0..MaxArgs}
ToolchainOpts == {None, Some(s_nightly), Some(<<>>)}
EnvMaps == {[k \in {"K1"} |-> "v"], [k \in {"K1", "PATH"} |-> IF k = "K1" THEN "v" ELSE "/x"]}
EnvOpts == {None} \cup {Some(e) : e \in EnvMaps}

\* Commands handed to wrap_command_for_pty: built by create_cargo_command,
\* or any other program with arguments.
WrapInputs ==
    {create_cargo_command(a, t, None) : a \in ArgLists, t \in ToolchainOpts}
    \cup {[program |-> p, args |-> a, env |-> e] :
             p \in {s_cargo, s_mk}, a \in ArgLists, e \in {NoEnv} \cup EnvMaps}

Calls ==
    {[fn |-> "create", cargo_args |-> a, toolchain |-> t, env_vars |-> e] :
        a \in ArgLists, t \in ToolchainOpts, e \in EnvOpts}
    \cup {[fn |-> "wrap", cmd |-> c, path |-> pp] : c \in WrapInputs, pp \in ProjectPaths}

InitPure ==
    /\ pc = "call"
    /\ call \in Calls
    /\ ret = NoResult
    /\ project_path = [name |-> <<"/", "p">>, has_config |-> FALSE]
    /\ cmd = create_cargo_command(<<>>, None, None)
    /\ built = cmd
    /\ timeout_secs = None
    /\ now = 0
    /\ lastLatency = 0
    /\ polls = 0
    /\ ops = <<>>
    /\ killResult = "none"
    /\ child = "none"
    /\ childStatus = NoStatus
    /\ script = <<>>
    /\ childExit = Exited(0)
    /\ written = NoBytes
    /\ blockedAtStart = FALSE
    /\ pipe = NoBytes
    /\ captured = NoBytes
    /\ childEnv = NoEnv
    /\ result = NoResult
    /\ req = NoRequest
    /\ session = NoSession
    /\ fs = NoFs

execVars == <<now, lastLatency, polls, ops, killResult, child, childStatus,
              script, childExit, written, blockedAtStart, pipe, captured,
              childEnv, result>>

CallCreate ==
    /\ pc = "call"
    /\ call.fn = "create"
    /\ ret' = create_cargo_command(call.cargo_args, call.toolchain, call.env_vars)
    /\ pc' = "returned"
    /\ UNCHANGED <<execVars, cmd, project_path, timeout_secs, req, session, fs,
                   built, call>>

CallWrap ==
    /\ pc = "call"
    /\ call.fn = "wrap"
    /\ ret' = wrap_command_for_pty(call.cmd, call.path)
    /\ pc' = "returned"
    /\ UNCHANGED <<execVars, cmd, project_path, timeout_secs, req, session, fs,
                   built, call>>

NextPure == CallCreate \/ CallWrap

SpecPure == InitPure /\ [][NextPure]_vars

(***************************************************************************)
(* Properties of the command builders, checked under SpecPure.             *)
(***************************************************************************)
CreateReturned == call.fn = "create" /\ pc = "returned"
WrapReturned == call.fn = "wrap" /\ pc = "returned"

\* C6: create_cargo_command with a toolchain T present gives program
\* "rustup" and the arguments "run", T, "cargo" followed by the given
\* arguments in order; with T absent it gives program "cargo" and the given
\* arguments unchanged; it returns a command for every input.
C6_CreateMapsInputs ==
    CreateReturned =>
        LET A == call.cargo_args
            T == call.toolchain
        IN  /\ T.some =>
                  /\ ret.program = s_rustup
                  /\ Len(ret.args) = Len(A) + 3
                  /\ ret.args[1] = s_run
                  /\ ret.args[2] = T.v
                  /\ ret.args[3] = s_cargo
                  /\ \A i \in 1..Len(A) : ret.args[3 + i] = A[i]
            /\ ~T.some =>
                  /\ ret.program = s_cargo
                  /\ ret.args = A

\* C6 witness: a present but empty toolchain, with two arguments.
C6_Witness ==
    /\ CreateReturned
    /\ call.toolchain = Some(<<>>)
    /\ Len(call.cargo_args) = 2
    /\ ret.program = s_rustup

\* The line of a command and the triggers, as C7 states them.
LineOf(c) == c.program \o <<" ">> \o Join(c.args, <<" ">>)
Triggered(c) ==
    LET low == ToLower(LineOf(c))
    IN  \/ Contains(low, s_espflash)
        \/ Contains(low, s_flash)
        \/ Contains(low, s_monitor)
        \/ (Contains(low, s_cargo) /\ Contains(low, s_run))
Rewritten(before, after) ==
    <<after.program, after.args>> # <<before.program, before.args>>

MaxOptions == 2

DefaultTimeoutSecs == 120

D_cwd == <<"/","w">>
D_p == <<"/","p">>
s_stable == <<"s","t","a","b","l","e">>

\* The fields of CargoRun, in the order of the struct, and the values a
\* request gives them when it sets them.
Fields == <<"path", "package", "bin", "example", "release", "features",
            "all_features", "no_default_features", "args", "toolchain",
            "timeout", "cargo_env", "raw_args">>

FieldValues(f) ==
    CASE f = "path" -> {D_p}
      [] f = "package" -> {<<"p","k","g">>}
      [] f = "bin" -> {<<"b">>}
      [] f = "example" -> {<<"e","x">>}
      [] f = "release" -> {TRUE, FALSE}
      [] f = "features" -> {<<"f","1">>, <<"f","1"," ","f","2">>}
      [] f = "all_features" -> {TRUE}
      [] f = "no_default_features" -> {TRUE}
      [] f = "args" -> {<<>>, <<<<"-","v">>, <<"a"," ","b">>>>}
      [] f = "toolchain" -> {s_nightly, <<>>}
      [] f = "timeout" -> {0, 60}
      [] f = "cargo_env" -> EnvMaps
      [] f = "raw_args" -> {<<"-","-","r","e","l","e","a","s","e">>, <<" ","-","-","b","i","n"," "," ","x"," ">>}

\* The value tuples of the fields from the i-th on, at most k of them set.
RECURSIVE FieldChoices(_, _)
FieldChoices(i, k) ==
    IF i > Len(Fields) THEN {<<>>}
    ELSE {<<None>> \o t : t \in FieldChoices(i + 1, k)}
         \cup (IF k > 0
               THEN {<<Some(v)>> \o t :
                        v \in FieldValues(Fields[i]), t \in FieldChoices(i + 1, k - 1)}
               ELSE {})

FieldIndex(f) == CHOOSE i \in 1..Len(Fields) : Fields[i] = f
Requests ==
    {[f \in {Fields[i] : i \in 1..Len(Fields)} |-> t[FieldIndex(f)]] :
        t \in FieldChoices(1, MaxOptions)}

\* str::split_whitespace
IsSpace(c) == c \in {" ", "\t", NL}
RECURSIVE split_whitespace(_)
split_whitespace(str) ==
    IF str = <<>> THEN <<>>
    ELSE IF IsSpace(Head(str)) THEN split_whitespace(Tail(str))
    ELSE LET n == IF \E i \in 1..Len(str) : IsSpace(str[i])
                  THEN (CHOOSE i \in 1..Len(str) :
                           IsSpace(str[i]) /\ \A j \in 1..(i - 1) : ~IsSpace(str[j])) - 1
                  ELSE Len(str)
         IN  <<SubSeq(str, 1, n)>> \o split_whitespace(SubSeq(str, n + 1, Len(str)))

\* if let Some(ref x) = field { args.extend_from_slice(&[flag, x]) }
with_value(flag, opt) == IF opt.some THEN <<flag, opt.v>> ELSE <<>>
\* if field.unwrap_or(false) { args.push(flag) }
with_flag(flag, opt) == IF opt.some /\ opt.v THEN <<flag>> ELSE <<>>

\* The argument list as it would be without the leading subcommand.
run_args_NoSubcommand(r) ==
    with_value(<<"-","-","p","a","c","k","a","g","e">>, r.package)
    \o with_value(<<"-","-","b","i","n">>, r.bin)
    \o with_value(<<"-","-","e","x","a","m","p","l","e">>, r.example)
    \o with_flag(<<"-","-","r","e","l","e","a","s","e">>, r.release)
    \o with_value(<<"-","-","f","e","a","t","u","r","e","s">>, r.features)
    \o with_flag(<<"-","-","a","l","l","-","f","e","a","t","u","r","e","s">>, r.all_features)
    \o with_flag(<<"-","-","n","o","-","d","e","f","a","u","l","t","-","f","e","a","t","u","r","e","s">>, r.no_default_features)
    \o (IF r.raw_args.some THEN split_whitespace(r.raw_args.v) ELSE <<>>)
    \o (IF r.args.some /\ r.args.v # <<>> THEN <<<<"-","-">>>> \o r.args.v ELSE <<>>)

\* The argument list CargoRun::execute builds.
run_args(r) ==
    <<s_run>>
    \o with_value(<<"-","-","p","a","c","k","a","g","e">>, r.package)
    \o with_value(<<"-","-","b","i","n">>, r.bin)
    \o with_value(<<"-","-","e","x","a","m","p","l","e">>, r.example)
    \o with_flag(<<"-","-","r","e","l","e","a","s","e">>, r.release)
    \o with_value(<<"-","-","f","e","a","t","u","r","e","s">>, r.features)
    \o with_flag(<<"-","-","a","l","l","-","f","e","a","t","u","r","e","s">>, r.all_features)
    \o with_flag(<<"-","-","n","o","-","d","e","f","a","u","l","t","-","f","e","a","t","u","r","e","s">>, r.no_default_features)
    \o (IF r.raw_args.some THEN split_whitespace(r.raw_args.v) ELSE <<>>)
    \o (IF r.args.some /\ r.args.v # <<>> THEN <<<<"-","-">>>> \o r.args.v ELSE <<>>)

\* CargoTools::get_default_toolchain: the stored value, or an error.
get_default_toolchain(sess) ==
    IF sess.readable THEN [ok |-> TRUE, v |-> sess.default_toolchain] ELSE [ok |-> FALSE]

\* The resolution as it would be if the stored default came first.
resolve_toolchain_DefaultFirst(r, sess) ==
    LET got == get_default_toolchain(sess)
    IN  IF got.ok /\ got.v.some THEN got.v ELSE r.toolchain

\* self.toolchain.or_else(|| state.get_default_toolchain().unwrap_or(None))
resolve_toolchain(r, sess) ==
    IF r.toolchain.some THEN r.toolchain
    ELSE LET got == get_default_toolchain(sess)
         IN  IF got.ok THEN got.v ELSE None

\* The timeout as it would be if the request's field were passed on as is.
resolve_timeout_PassThrough(r) == r.timeout

\* self.timeout.or(Some(120))
resolve_timeout(r) == IF r.timeout.some THEN r.timeout ELSE Some(DefaultTimeoutSecs)

\* What Path::exists finds for .cargo/config.toml under a directory.
path_of(name) == [name |-> name, has_config |-> name \in fs.configs]

\* CargoTools::new: a non-empty CARGO_MCP_DEFAULT_TOOLCHAIN is stored.
Startup ==
    /\ pc = "start"
    /\ \E var \in {None, Some(<<>>), Some(s_stable)} :
          session' = IF var.some /\ var.v # <<>>
                     THEN [session EXCEPT !.default_toolchain = Some(var.v)]
                     ELSE session
    /\ pc' = "idle"
    /\ UNCHANGED <<execVars, cmd, project_path, timeout_secs, req, fs, built,
                   call, ret>>

\* CargoTools::set_default_toolchain
SetDefaultToolchain ==
    /\ pc = "idle"
    /\ \E t \in {None, Some(s_nightly)} :
          /\ session.default_toolchain # t
          /\ session' = [session EXCEPT !.default_toolchain = t]
    /\ UNCHANGED <<pc, execVars, cmd, project_path, timeout_secs, req, fs, built,
                   call, ret>>

\* CargoRun::execute without a path, outside a Rust project:
\* ensure_rust_project()? returns the error.
ExecuteNoProject ==
    /\ pc = "idle"
    /\ ~req.path.some
    /\ fs.cwd \notin fs.projects
    /\ result' = Err("Not a Rust project")
    /\ pc' = "done"
    /\ UNCHANGED <<inputVars, now, lastLatency, polls, ops, killResult, child,
                   childStatus, script, childExit, written, blockedAtStart, pipe,
                   captured, childEnv>>

\* CargoRun::execute up to create_cargo_command.
Execute ==
    /\ pc = "idle"
    /\ req.path.some \/ fs.cwd \in fs.projects
    /\ project_path' = path_of(IF req.path.some THEN req.path.v ELSE fs.cwd)
    /\ timeout_secs' = resolve_timeout(req)
    /\ built' = create_cargo_command(run_args(req), resolve_toolchain(req, session),
                                     req.cargo_env)
    /\ cmd' = built'
    /\ pc' = "built"
    /\ UNCHANGED <<execVars, req, session, fs, call, ret>>

\* wrap_command_for_pty(&mut cmd, &project_path), and the call of
\* execute_cargo_command.
Wrap ==
    /\ pc = "built"
    /\ cmd' = wrap_command_for_pty(cmd, project_path)
    /\ pc' = "spawn"
    /\ UNCHANGED <<execVars, project_path, timeout_secs, req, session, fs, built,
                   call, ret>>

InitCmd ==
    /\ pc = "start"
    /\ req \in Requests
    /\ session \in {[default_toolchain |-> None, readable |-> b] : b \in BOOLEAN}
    /\ fs \in {[cwd |-> D_cwd, projects |-> p, configs |-> c] :
                  p \in {{}, {D_cwd}}, c \in {{}, {D_cwd, D_p}}}
    /\ project_path = [name |-> <<>>, has_config |-> FALSE]
    /\ cmd = create_cargo_command(<<>>, None, None)
    /\ built = cmd
    /\ timeout_secs = None
    /\ now = 0
    /\ lastLatency = 0
    /\ polls = 0
    /\ ops = <<>>
    /\ killResult = "none"
    /\ child = "none"
    /\ childStatus = NoStatus
    /\ script = <<>>
    /\ childExit = Exited(0)
    /\ written = NoBytes
    /\ blockedAtStart = FALSE
    /\ pipe = NoBytes
    /\ captured = NoBytes
    /\ childEnv = NoEnv
    /\ result = NoResult
    /\ call = NoCall
    /\ ret = NoResult

NextCmd ==
    \/ Startup
    \/ SetDefaultToolchain
    \/ ExecuteNoProject
    \/ Execute
    \/ Wrap
    \/ SpawnOk
    \/ SpawnFail

SpecCmd == InitCmd /\ [][NextCmd]_vars

(***************************************************************************)
(* Properties of CargoRun::execute, checked under SpecCmd.                 *)
(***************************************************************************)
\* C5: every key/value pair of the request's environment map is set in the
\* environment of the process that is spawned, also when
\* wrap_command_for_pty has rewritten the command.
C5_EnvReachesChild ==
    (child = "running" /\ req.cargo_env.some) =>
        \A k \in DOMAIN req.cargo_env.v :
            k \in DOMAIN childEnv /\ childEnv[k] = req.cargo_env.v[k]


\* The request has reached the executor: execute_cargo_command was called.
Executed == pc \in {"spawn", "poll", "wait"} \/ result = Err("spawn")

\* C13: every cargo_run that reaches the executor runs under a timeout, the
\* request's when it gives one and 120 seconds otherwise; the timeout is
\* never absent and the blocking wait without a timeout is never taken.
C13_AlwaysUnderTimeout ==
    /\ pc # "wait"
    /\ (pc = "built" \/ Executed) =>
          /\ timeout_secs.some
          /\ timeout_secs.v = IF req.timeout.some THEN req.timeout.v ELSE 120
    /\ Spawned => pc = "poll"

\* C13 witness: a request without a timeout is being polled under 120 seconds.
C13_Witness ==
    /\ pc = "poll"
    /\ child = "running"
    /\ ~req.timeout.some
    /\ timeout_secs = Some(120)

\* The toolchain a built command runs under: the one rustup is given.
UsedToolchain(c) == IF c.program = s_rustup THEN Some(c.args[2]) ELSE None

\* C14: the command is built for the request's toolchain when it has one,
\* otherwise for the stored default when it can be read and is set,
\* otherwise for none; an unreadable store does not fail the invocation;
\* building leaves the stored default as it was; the store holds what
\* set_default_toolchain wrote last, which at startup is only a non-empty
\* CARGO_MCP_DEFAULT_TOOLCHAIN.
C14_ToolchainPrecedence ==
    [][ /\ (pc = "idle" /\ pc' = "built") =>
              /\ session' = session
              /\ result' = NoResult
              /\ UsedToolchain(built') =
                    IF req.toolchain.some THEN req.toolchain
                    ELSE IF session.readable THEN session.default_toolchain
                    ELSE None
        /\ (pc = "start" /\ pc' = "idle") =>
              /\ session'.default_toolchain \in {None, Some(s_stable)}
              /\ session'.readable = session.readable
        /\ pc \notin {"start", "idle"} => session' = session
        /\ result'.tag = "Err" => result'.error \in {"Not a Rust project", "spawn"}
      ]_vars

\* C14 witness: a request without a toolchain was built for the default
\* that set_default_toolchain stored over the one written at startup.
C14_Witness ==
    /\ pc = "built"
    /\ ~req.toolchain.some
    /\ session = [default_toolchain |-> Some(s_nightly), readable |-> TRUE]
    /\ built.program = s_rustup
    /\ built.args[2] = s_nightly

\* Whether .cargo/config.toml exists under the request's project path.
HasConfig == (IF req.path.some THEN req.path.v ELSE fs.cwd) \in fs.configs

C17_EmptyToolchainIsCargo ==
    (CreateReturned /\ call.toolchain = Some(<<>>)) =>
        /\ ret.program = s_cargo
        /\ ret.args = call.cargo_args

\* C19: when wrap_command_for_pty rewrites a command, splitting the line
\* given after "-c" on whitespace gives back the program followed by the
\* arguments of the command, unchanged.  (Stated for commands without an
\* empty argument.)
C19_WrapPreservesArgs ==
    (WrapReturned /\ Rewritten(call.cmd, ret)
       /\ \A i \in 1..Len(call.cmd.args) : call.cmd.args[i] # <<>>) =>
        split_whitespace(ret.args[3]) = <<call.cmd.program>> \o call.cmd.args

====
